---- MODULE Spec2Model ----
(***************************************************************************)
(* Model of astrbot_plugin_proactive_chat 0.9.7 (src/main.py): the         *)
(* per-session proactive-message controller.  Strings are sequences of     *)
(* one-character strings (the word "private" is kept as one symbol), times *)
(* are whole seconds since an arbitrary epoch.  A handler runs atomically  *)
(* from one await that can suspend it to the next; _schedule_next_chat     *)
(* awaits nothing, so it is part of the step that calls it.                *)
(***************************************************************************)
EXTENDS Bags, FiniteSets, Integers, Sequences, TLC

VARIABLES
    phase,          \* "constructed" (after __init__), "running" (after initialize), "terminated"
    cfg,            \* self.config, fixed for the lifetime of the instance
    now,            \* time.time()
    session_data,   \* self.session_data: session id -> entry
    file,           \* contents of SESSION_DATA_FILE
    jobs,           \* the scheduler's job store: a bag of [id, run_date]
    pc,             \* per session: where its check_and_chat task stands
    locals,         \* per session: the local variables of its check_and_chat task
    sentSince,      \* history: proactive messages delivered since the last handled inbound message
    last,           \* history: the handler step taken last, with the part of the pre-state claims speak of
    probe           \* inputs and result of the pure functions checked on their own

vars == <<phase, cfg, now, session_data, file, jobs, pc, locals, sentSince, last, probe>>

----------------------------------------------------------------------------
(* Bounds of the model *)

MaxTime == 180          \* the clock stops advancing here
TickStep == 60          \* seconds the clock advances in one step
MaxCount == 2           \* no firing starts once unanswered_count reached it
MaxMinutes == 2         \* interval settings range over 0..MaxMinutes in SpecInterval
MaxLen == 4             \* quiet-hours strings have at most this many characters

(* Program constants *)

SecondsPerMinute == 60
MisfireGraceTime == 60
DefaultCount == 0
DefaultTrigger == 0

None == -1              \* a key that is absent from a dict entry

----------------------------------------------------------------------------
(* Strings *)

RECURSIVE StripLeft(_)
StripLeft(s) == IF s # <<>> /\ Head(s) = " " THEN StripLeft(Tail(s)) ELSE s

RECURSIVE StripRight(_)
StripRight(s) ==
    IF s # <<>> /\ s[Len(s)] = " " THEN StripRight(SubSeq(s, 1, Len(s) - 1)) ELSE s

\* str.strip()
Strip(s) == StripRight(StripLeft(s))

\* sub in s
Contains(s, sub) ==
    \E i \in 1..(Len(s) - Len(sub) + 1) : SubSeq(s, i, i + Len(sub) - 1) = sub

\* the users that can write to the bot, and the unified_msg_origin of their private chats
UserIds == {<<"1">>, <<"1", "2">>}
Umo(u) == <<"q", ":", "private", ":">> \o u
SessionIds == {Umo(u) : u \in UserIds}
Owner(sid) == CHOOSE u \in UserIds : Umo(u) = sid

----------------------------------------------------------------------------
(* Session entries and the data file *)

NoEntry == [present |-> FALSE, unanswered_count |-> None, last_msg_time |-> None,
            next_trigger_time |-> None]

\* dict.get(key, default) on an entry of session_data
GetOr(entry, key, default) ==
    IF entry.present /\ entry[key] # None THEN entry[key] ELSE default

\* the store as it would be if the entry were assigned, not fetched with setdefault
SetFieldInNewEntry(sd, sid, key, value) ==
    [sd EXCEPT ![sid] = [[NoEntry EXCEPT !.present = TRUE] EXCEPT ![key] = value]]

\* session_data.setdefault(sid, {})[key] = value
SetField(sd, sid, key, value) ==
    [sd EXCEPT ![sid] = [[@ EXCEPT !.present = TRUE] EXCEPT ![key] = value]]

EmptyData == [s \in SessionIds |-> NoEntry]

\* load_session_data_from_file as it would be if the parsed mapping were dropped
load_nothing(f) == EmptyData

\* load_session_data_from_file
load_session_data_from_file(f) ==
    IF f.status = "ok" THEN f.data ELSE EmptyData

\* how a write of the file can end: written, or truncated by open and then failed
WriteOutcomes == {"ok", "failed"}

\* save_session_data_to_file as it would be if it dumped an empty mapping
save_nothing(data, w) ==
    IF w = "ok"
    THEN [status |-> "ok", data |-> EmptyData]
    ELSE [status |-> "corrupt", data |-> EmptyData]

\* save_session_data_to_file: open(..., 'w') truncates, json.dump writes, errors are logged
save_session_data_to_file(data, w) ==
    IF w = "ok"
    THEN [status |-> "ok", data |-> data]
    ELSE [status |-> "corrupt", data |-> EmptyData]

----------------------------------------------------------------------------
(* Configuration *)

Digits == <<"0", "1", "2", "3", "4", "5", "6", "7", "8", "9">>
IsDigit(c) == \E i \in 1..Len(Digits) : Digits[i] = c
DigitVal(c) == (CHOOSE i \in 1..Len(Digits) : Digits[i] = c) - 1

\* str.split('-')
RECURSIVE SplitDash(_)
SplitDash(s) ==
    IF \A i \in 1..Len(s) : s[i] # "-"
    THEN <<s>>
    ELSE LET i == CHOOSE k \in 1..Len(s) : s[k] = "-" /\ \A m \in 1..(k - 1) : s[m] # "-"
         IN  <<SubSeq(s, 1, i - 1)>> \o SplitDash(SubSeq(s, i + 1, Len(s)))

\* whether int(s) returns (s holds no sign, blank or underscore here)
IntOk(s) == s # <<>> /\ \A i \in 1..Len(s) : IsDigit(s[i])

\* int(s)
RECURSIVE IntOf(_)
IntOf(s) ==
    IF s = <<>> THEN 0 ELSE IntOf(SubSeq(s, 1, Len(s) - 1)) * 10 + DigitVal(s[Len(s)])

\* is_quiet_time as it would be without the branch for a range that wraps past midnight
is_quiet_time_no_wrap(quiet_hours_str, hour) ==
    LET parts == SplitDash(quiet_hours_str)
    IN  IF Len(parts) # 2 \/ ~IntOk(parts[1]) \/ ~IntOk(parts[2])
        THEN FALSE
        ELSE IntOf(parts[1]) <= hour /\ hour < IntOf(parts[2])

\* is_quiet_time, with now.hour given
is_quiet_time(quiet_hours_str, hour) ==
    LET parts == SplitDash(quiet_hours_str)
    IN  IF Len(parts) # 2 \/ ~IntOk(parts[1]) \/ ~IntOk(parts[2])
        THEN FALSE
        ELSE LET start_hour == IntOf(parts[1])
                 end_hour == IntOf(parts[2])
             IN  IF start_hour <= end_hour
                 THEN start_hour <= hour /\ hour < end_hour
                 ELSE hour >= start_hour \/ hour < end_hour

Hours == 0..23

\* the settings the instance may run with
TargetCfgs == {<<" ">>, <<"1", " ">>, <<"1", "2">>}
IntervalCfgs == {<<1, 0>>}
QuietCfgs == {<<"1", "-", "7">>}
HourSamples == {0, 3}

Configs ==
    [enable : BOOLEAN, target_user_id : TargetCfgs, interval : IntervalCfgs,
     quiet_hours : QuietCfgs, always_send_text : BOOLEAN]

\* str(basic_conf.get("target_user_id", "")).strip()
target_user_id == Strip(cfg.target_user_id)

\* random.randint(a, b)
randint(a, b) == a..b

\* min_interval as it would be with the minutes taken for seconds
min_interval_in_minutes(c) == c.interval[1]

min_interval(c) == c.interval[1] * SecondsPerMinute

Max(a, b) == IF a >= b THEN a ELSE b

max_interval(c) == Max(min_interval(c), c.interval[2] * SecondsPerMinute)

\* the values next_trigger_time can take in _schedule_next_chat at time t
TriggerTimes(c, t) == {t + r : r \in randint(min_interval(c), max_interval(c))}

----------------------------------------------------------------------------
(* The scheduler *)

JobsOf(js, sid) == {j \in BagToSet(js) : j.id = sid}

JobCount(js, sid) == BagCardinality([j \in JobsOf(js, sid) |-> js[j]])

RunDates(js, sid) == {j.run_date : j \in JobsOf(js, sid)}

\* add_job as it would be if the job of the same id were kept
add_job_keep_existing(js, sid, run_date) ==
    js (+) SetToBag({[id |-> sid, run_date |-> run_date]})

\* scheduler.add_job(..., 'date', run_date, id=sid, replace_existing=True)
add_job(js, sid, run_date) ==
    [j \in {k \in BagToSet(js) : k.id # sid} |-> js[j]]
        (+) SetToBag({[id |-> sid, run_date |-> run_date]})

\* the filter of _init_jobs_from_data
IsTargetPrivate(sid, target) ==
    Contains(sid, <<":">> \o target) /\ Contains(sid, <<"private">>)

RECURSIVE RestoreJobs(_, _, _, _, _)
RestoreJobs(js, sd, S, target, t) ==
    IF S = {}
    THEN js
    ELSE LET sid == CHOOSE x \in S : TRUE
             next_trigger == GetOr(sd[sid], "next_trigger_time", DefaultTrigger)
             js1 == IF sd[sid].present /\ IsTargetPrivate(sid, target) /\ t < next_trigger
                    THEN add_job(js, sid, next_trigger)
                    ELSE js
         IN  RestoreJobs(js1, sd, S \ {sid}, target, t)

\* _init_jobs_from_data as it would be if it returned before its loop
init_jobs_from_data_skipped(js, sd, target, t) == js

\* _init_jobs_from_data
init_jobs_from_data(js, sd, target, t) ==
    IF target = <<>> THEN js ELSE RestoreJobs(js, sd, SessionIds, target, t)

----------------------------------------------------------------------------
(* History *)

NoSession == <<>>

\* the record of a handler step: what it did, and of the state it started in the jobs
\* of the session (prev), the counter its task read (start), the stored counter
\* (before) and the position of its task (at); hour is now.hour where the step read it
LastAt(op, sid, outcome, saved, voice, text, hour) ==
    [op |-> op, sid |-> sid, outcome |-> outcome, saved |-> saved,
     voice |-> voice, text |-> text,
     prev |-> IF sid = NoSession THEN {} ELSE RunDates(jobs, sid),
     start |-> IF sid = NoSession THEN 0 ELSE locals[sid].unanswered_count,
     before |-> IF sid = NoSession THEN 0
                ELSE GetOr(session_data[sid], "unanswered_count", DefaultCount),
     at |-> IF sid = NoSession THEN "none" ELSE pc[sid],
     hour |-> hour]

Last(op, sid, outcome, saved, voice, text) ==
    LastAt(op, sid, outcome, saved, voice, text, None)

NoLocals == [unanswered_count |-> 0, is_tts_sent |-> FALSE, cancelled |-> FALSE]

NoProbe == [kind |-> "none"]

----------------------------------------------------------------------------
(* Initial state: the instance as __init__ leaves it *)

InitEntries ==
    {NoEntry,
     [present |-> TRUE, unanswered_count |-> 0, last_msg_time |-> 0, next_trigger_time |-> 0],
     [present |-> TRUE, unanswered_count |-> 1, last_msg_time |-> 0, next_trigger_time |-> 60]}

InitFiles ==
    {[status |-> st, data |-> EmptyData] : st \in {"missing", "corrupt"}} \cup
    [status : {"ok"}, data : [SessionIds -> InitEntries]]

Init ==
    /\ phase = "constructed"
    /\ cfg \in Configs
    /\ now = 0
    /\ file \in InitFiles
    /\ session_data = load_session_data_from_file(file)
    /\ jobs = EmptyBag
    /\ pc = [s \in SessionIds |-> "idle"]
    /\ locals = [s \in SessionIds |-> NoLocals]
    /\ sentSince = [s \in SessionIds |->
                      GetOr(session_data[s], "unanswered_count", DefaultCount)]
    /\ last = [op |-> "construct", sid |-> NoSession, outcome |-> "none", saved |-> "none",
               voice |-> FALSE, text |-> FALSE, prev |-> {}, start |-> 0, before |-> 0, at |-> "none", hour |-> None]
    /\ probe = NoProbe

----------------------------------------------------------------------------
(* Handlers *)

\* the store of next_trigger_time as it would be if it replaced the entry
StoreTriggerInNewEntry(sd, sid, next_trigger_time) ==
    [sd EXCEPT ![sid] = [NoEntry EXCEPT !.present = TRUE,
                                        !.next_trigger_time = next_trigger_time]]

\* self.session_data.setdefault(session_id, {})["next_trigger_time"] = next_trigger_time
StoreTrigger(sd, sid, next_trigger_time) ==
    SetField(sd, sid, "next_trigger_time", next_trigger_time)

\* the reset as it would be without the write of last_msg_time
ResetCounterOnly(sd, sid, t) == SetField(sd, sid, "unanswered_count", 0)

\* on_private_message: the counter is reset and the time of the message kept
ResetCounter(sd, sid, t) ==
    SetField(SetField(sd, sid, "unanswered_count", 0), sid, "last_msg_time", t)

\* the counter write as it would be without the + 1
IncrementByNone(sd, sid, unanswered_count) ==
    SetField(sd, sid, "unanswered_count", unanswered_count)

\* check_and_chat: the counter becomes the value read at the start, plus one
Increment(sd, sid, unanswered_count) ==
    SetField(sd, sid, "unanswered_count", unanswered_count + 1)

\* _schedule_next_chat(sid), run on the session map sd its caller leaves; op and
\* outcome name the handler step it ends
schedule_next_chat_at(sid, sd, op, outcome, voice, text, hour) ==
    \E next_trigger_time \in TriggerTimes(cfg, now), w \in WriteOutcomes :
        /\ jobs' = add_job(jobs, sid, next_trigger_time)
        /\ session_data' = StoreTrigger(sd, sid, next_trigger_time)
        /\ file' = save_session_data_to_file(session_data', w)
        /\ last' = LastAt(op, sid, outcome, w, voice, text, hour)

\* the same, ending a step that did not read the hour
schedule_next_chat(sid, sd, op, outcome, voice, text) ==
    schedule_next_chat_at(sid, sd, op, outcome, voice, text, None)

\* initialize
Initialize ==
    /\ phase = "constructed"
    /\ phase' = "running"
    /\ jobs' = init_jobs_from_data(jobs, session_data, target_user_id, now)
    /\ last' = Last("initialize", NoSession, "none", "none", FALSE, FALSE)
    /\ UNCHANGED <<cfg, now, session_data, file, pc, locals, sentSince, probe>>

\* the early returns of on_private_message as they would be without the sender test
IgnoredUnlessConfigured(sender) ==
    \/ ~cfg.enable
    \/ target_user_id = <<>>

\* whether on_private_message returns before touching the session
Ignored(sender) ==
    \/ ~cfg.enable
    \/ target_user_id = <<>>
    \/ sender # target_user_id

\* on_private_message, for a private message of user sender
OnPrivateMessage(sender) ==
    LET session_id == Umo(sender)
    IN  /\ phase = "running"
        /\ IF Ignored(sender)
           THEN /\ last' = Last("on_private_message", session_id, "ignored", "none",
                                FALSE, FALSE)
                /\ UNCHANGED <<session_data, file, jobs, sentSince>>
           ELSE /\ schedule_next_chat(session_id, ResetCounter(session_data, session_id, now),
                                      "on_private_message", "reset", FALSE, FALSE)
                /\ sentSince' = [sentSince EXCEPT ![session_id] = 0]
        /\ UNCHANGED <<phase, cfg, now, pc, locals, probe>>

\* the clock advances
Tick ==
    /\ phase # "terminated"
    /\ now + TickStep <= MaxTime
    /\ now' = now + TickStep
    /\ last' = Last("tick", NoSession, "none", "none", FALSE, FALSE)
    /\ UNCHANGED <<phase, cfg, session_data, file, jobs, pc, locals,
                   sentSince, probe>>

\* the instance limit as it would be if executions of one job id were not counted
max_instances_unlimited(sid) == FALSE

\* an execution of the job id is still running: add_job sets no max_instances, so the
\* scheduler's limit of one instance per job id applies
max_instances_reached(sid) == pc[sid] # "idle"

\* the scheduler takes a due job of the session: a date job is removed when it is
\* processed; it is run unless it is later than misfire_grace_time or an instance
\* of the job id is still running (max_instances is 1, add_job sets no other).
\* The job may be taken late: the clock is free to advance first.  MaxCount bounds
\* the counter: no job is taken once the session has reached it.
JobDue(sid) ==
    /\ phase = "running"
    /\ GetOr(session_data[sid], "unanswered_count", DefaultCount) < MaxCount
    /\ \E j \in JobsOf(jobs, sid) :
        /\ j.run_date <= now
        /\ jobs' = jobs (-) SetToBag({j})
        /\ IF now - j.run_date > MisfireGraceTime
           THEN /\ last' = Last("job", sid, "missed", "none", FALSE, FALSE)
                /\ pc' = pc
           ELSE IF max_instances_reached(sid)
           THEN /\ last' = Last("job", sid, "skipped", "none", FALSE, FALSE)
                /\ pc' = pc
           ELSE /\ last' = Last("job", sid, "submitted", "none", FALSE, FALSE)
                /\ pc' = [pc EXCEPT ![sid] = "queued"]
    /\ UNCHANGED <<phase, cfg, now, session_data, file, locals, sentSince, probe>>

\* the task ends: its locals are gone
Return(sid) ==
    /\ pc' = [pc EXCEPT ![sid] = "idle"]
    /\ locals' = [locals EXCEPT ![sid] = NoLocals]

\* the gate of check_and_chat as it would be without the quiet-hours test
GatedIfDisabled(c, hour) == ~c.enable

\* check_and_chat: the plugin is disabled or the hour is a quiet one
Gated(c, hour) == ~c.enable \/ is_quiet_time(c.quiet_hours, hour)

\* check_and_chat up to its first await: the gates, the counter read, the provider
Begin(sid) ==
    /\ pc[sid] = "queued"
    /\ \E hour \in HourSamples, provider \in {"ok", "none", "raise"} :
        IF Gated(cfg, hour)
        THEN /\ schedule_next_chat_at(sid, session_data, "check_and_chat", "gated",
                                      FALSE, FALSE, hour)
             /\ Return(sid)
        ELSE CASE provider = "none" ->
                    /\ schedule_next_chat_at(sid, session_data, "check_and_chat",
                                             "no_provider", FALSE, FALSE, hour)
                    /\ Return(sid)
               [] provider = "raise" ->
                    /\ schedule_next_chat_at(sid, session_data, "check_and_chat",
                                             "exception", FALSE, FALSE, hour)
                    /\ Return(sid)
               [] OTHER ->
                    /\ pc' = [pc EXCEPT ![sid] = "persona"]
                    /\ locals' = [locals EXCEPT ![sid].unanswered_count =
                                    GetOr(session_data[sid], "unanswered_count", DefaultCount)]
                    /\ last' = LastAt("check_and_chat", sid, "await", "none", FALSE, FALSE,
                                      hour)
                    /\ UNCHANGED <<session_data, file, jobs>>
    /\ UNCHANGED <<phase, cfg, now, sentSince, probe>>

\* the conversation and persona lookups return: with a system prompt, or without one
\* (nothing found, or an exception that the inner handler logs)
PersonaDone(sid) ==
    /\ pc[sid] = "persona"
    /\ \E original_system_prompt \in BOOLEAN :
        IF original_system_prompt
        THEN /\ pc' = [pc EXCEPT ![sid] = "llm"]
             /\ locals' = locals
             /\ last' = Last("check_and_chat", sid, "await", "none", FALSE, FALSE)
        ELSE /\ Return(sid)
             /\ last' = Last("check_and_chat", sid, "no_persona", "none", FALSE, FALSE)
    /\ UNCHANGED <<phase, cfg, now, session_data, file, jobs, sentSince, probe>>

\* the test of the finally clause as it would be if the text were the fallback of a
\* voice message that was sent, and of nothing else
SendsTextIfAlways(tts_sent) == tts_sent /\ cfg.always_send_text

\* if not is_tts_sent or tts_conf.get("always_send_text", True)
SendsText(tts_sent) == ~tts_sent \/ cfg.always_send_text

\* the finally clause of the TTS block, entered with is_tts_sent = tts_sent: the text
\* is sent unless the voice was and always_send_text is off; then the counter is
\* written from the value read at the start, and the next chat is scheduled
Finally(sid, tts_sent) ==
    IF SendsText(tts_sent)
    THEN /\ pc' = [pc EXCEPT ![sid] = "send_text"]
         /\ locals' = [locals EXCEPT ![sid].is_tts_sent = tts_sent]
         /\ last' = Last("check_and_chat", sid, "await", "none", tts_sent, FALSE)
         /\ UNCHANGED <<session_data, file, jobs, sentSince>>
    ELSE IF locals[sid].cancelled
    THEN /\ Return(sid)
         /\ last' = Last("check_and_chat", sid, "cancelled", "none", tts_sent, FALSE)
         /\ UNCHANGED <<session_data, file, jobs, sentSince>>
    ELSE /\ schedule_next_chat(
                sid, Increment(session_data, sid, locals[sid].unanswered_count),
                "check_and_chat", "sent", tts_sent, FALSE)
         /\ sentSince' = [sentSince EXCEPT ![sid] = @ + 1]
         /\ Return(sid)

\* provider.text_chat returns or raises; on a completion the TTS provider is looked up
LlmDone(sid) ==
    /\ pc[sid] = "llm"
    /\ \E llm \in {"text", "empty", "raise"}, tts_provider \in BOOLEAN :
        CASE llm = "empty" ->
                /\ schedule_next_chat(sid, session_data, "check_and_chat", "llm_failed",
                                      FALSE, FALSE)
                /\ Return(sid)
                /\ UNCHANGED sentSince
          [] llm = "raise" ->
                /\ schedule_next_chat(sid, session_data, "check_and_chat", "exception",
                                      FALSE, FALSE)
                /\ Return(sid)
                /\ UNCHANGED sentSince
          [] OTHER ->
                IF tts_provider
                THEN /\ pc' = [pc EXCEPT ![sid] = "get_audio"]
                     /\ locals' = locals
                     /\ last' = Last("check_and_chat", sid, "await", "none", FALSE, FALSE)
                     /\ UNCHANGED <<session_data, file, jobs, sentSince>>
                ELSE Finally(sid, FALSE)
    /\ UNCHANGED <<phase, cfg, now, probe>>

\* tts_provider.get_audio returns a path, returns nothing, or raises
GetAudioDone(sid) ==
    /\ pc[sid] = "get_audio"
    /\ \E audio_path \in BOOLEAN :
        IF audio_path
        THEN /\ pc' = [pc EXCEPT ![sid] = "send_voice"]
             /\ locals' = locals
             /\ last' = Last("check_and_chat", sid, "await", "none", FALSE, FALSE)
             /\ UNCHANGED <<session_data, file, jobs, sentSince>>
        ELSE Finally(sid, FALSE)
    /\ UNCHANGED <<phase, cfg, now, probe>>

\* send_message of the voice chain returns or raises
SendVoiceDone(sid) ==
    /\ pc[sid] = "send_voice"
    /\ \E delivered \in BOOLEAN :
        IF delivered
        THEN /\ pc' = [pc EXCEPT ![sid] = "sleep"]
             /\ locals' = [locals EXCEPT ![sid].is_tts_sent = TRUE]
             /\ last' = Last("check_and_chat", sid, "await", "none", TRUE, FALSE)
             /\ UNCHANGED <<session_data, file, jobs, sentSince>>
        ELSE Finally(sid, FALSE)
    /\ UNCHANGED <<phase, cfg, now, probe>>

\* asyncio.sleep(0.5) returns
SleepDone(sid) ==
    /\ pc[sid] = "sleep"
    /\ Finally(sid, locals[sid].is_tts_sent)
    /\ UNCHANGED <<phase, cfg, now, probe>>

\* send_message of the text chain returns or raises
SendTextDone(sid) ==
    /\ pc[sid] = "send_text"
    /\ \E delivered \in BOOLEAN :
        IF locals[sid].cancelled
        THEN /\ Return(sid)
             /\ last' = Last("check_and_chat", sid, "cancelled", "none",
                             locals[sid].is_tts_sent, delivered)
             /\ UNCHANGED <<session_data, file, jobs, sentSince>>
        ELSE IF delivered
        THEN /\ schedule_next_chat(
                    sid, Increment(session_data, sid, locals[sid].unanswered_count),
                    "check_and_chat", "sent", locals[sid].is_tts_sent, TRUE)
             /\ sentSince' = [sentSince EXCEPT ![sid] = @ + 1]
             /\ Return(sid)
        ELSE /\ schedule_next_chat(sid, session_data, "check_and_chat", "exception",
                                   locals[sid].is_tts_sent, FALSE)
             /\ Return(sid)
             /\ UNCHANGED sentSince
    /\ UNCHANGED <<phase, cfg, now, probe>>

\* what scheduler.shutdown() does to a running check_and_chat task: it is cancelled at
\* its await; inside the TTS block the finally clause still runs
Cancel(sid) ==
    IF pc[sid] \in {"get_audio", "send_voice", "sleep"} /\ SendsText(locals[sid].is_tts_sent)
    THEN "send_text"
    ELSE "idle"

\* terminate
Terminate ==
    /\ phase = "running"
    /\ phase' = "terminated"
    /\ jobs' = EmptyBag
    /\ pc' = [s \in SessionIds |-> Cancel(s)]
    /\ locals' = [s \in SessionIds |->
                    IF Cancel(s) = "idle" THEN NoLocals
                    ELSE [locals[s] EXCEPT !.cancelled = TRUE]]
    /\ \E w \in WriteOutcomes :
        /\ file' = save_session_data_to_file(session_data, w)
        /\ last' = Last("terminate", NoSession, "none", w, FALSE, FALSE)
    /\ UNCHANGED <<cfg, now, session_data, sentSince, probe>>

Next ==
    \/ Initialize
    \/ \E u \in UserIds : OnPrivateMessage(u)
    \/ Tick
    \/ \E s \in SessionIds : JobDue(s)
    \/ \E s \in SessionIds : Begin(s)
    \/ \E s \in SessionIds : PersonaDone(s)
    \/ \E s \in SessionIds : LlmDone(s)
    \/ \E s \in SessionIds : GetAudioDone(s)
    \/ \E s \in SessionIds : SendVoiceDone(s)
    \/ \E s \in SessionIds : SleepDone(s)
    \/ \E s \in SessionIds : SendTextDone(s)
    \/ Terminate

Spec == Init /\ [][Next]_vars

----------------------------------------------------------------------------
(* Claims about the controller *)

Uc(s) == GetOr(session_data[s], "unanswered_count", DefaultCount)

Ntt(s) == GetOr(session_data[s], "next_trigger_time", DefaultTrigger)

\* the step taken last was one of check_and_chat(s)
FiringStep(s) == last.op = "check_and_chat" /\ last.sid = s

\* check_and_chat(s) has just returned, with one of the outcomes it provides for
Returned(s) == FiringStep(s) /\ last.outcome \notin {"await", "cancelled"}

\* a job is pending for s at a trigger time computed now, and it is the stored one
FreshJob(s) ==
    /\ JobCount(jobs, s) = 1
    /\ RunDates(jobs, s) = {Ntt(s)}
    /\ Ntt(s) \in TriggerTimes(cfg, now)

\* C1: every execution of check_and_chat, whatever its outcome, ends with a job
\* registered for the session at a newly computed trigger time.
C1_EveryFiringReschedules ==
    \A s \in SessionIds : Returned(s) => FreshJob(s)

\* C2: in every reachable state the unanswered_count of a session is the number of
\* proactive messages sent to it since the last inbound message of the monitored
\* user was handled (or since the session was created).
C2_CountIsSentSinceReply ==
    \A s \in SessionIds : session_data[s].present => Uc(s) = sentSince[s]

C4_FailedFiringKeepsCount ==
    \A s \in SessionIds :
        (FiringStep(s) /\ last.outcome # "sent") => Uc(s) = last.before

C4_Witness ==
    \E s \in SessionIds :
        /\ Returned(s) /\ last.outcome = "llm_failed"
        /\ last.before = 1 /\ Uc(s) = 1 /\ FreshJob(s)

\* the step taken last was on_private_message for a message of the monitored user
FromTarget == last.op = "on_private_message" /\ Owner(last.sid) = target_user_id

\* the session of the message has its counter at 0, its last-message time at the
\* time of the message, and one pending job at a trigger time computed now
ResetAndScheduled ==
    /\ Uc(last.sid) = 0
    /\ session_data[last.sid].last_msg_time = now
    /\ FreshJob(last.sid)

\* C5 as stated: after on_private_message returns for any message of the monitored
\* user, the counter is 0, the last-message time is updated and a job is pending at
\* a fresh trigger time in place of any job scheduled before.
C5_InboundResets == FromTarget => ResetAndScheduled

\* C5 as amended: the same, for messages that arrive while the plugin is enabled.
C5_InboundResetsWhenEnabled == (FromTarget /\ cfg.enable) => ResetAndScheduled

C5_Witness ==
    /\ FromTarget /\ cfg.enable
    /\ last.before = 2
    /\ last.prev # {} /\ Ntt(last.sid) \notin last.prev
    /\ ResetAndScheduled

\* _schedule_next_chat(s) has just run
Scheduled(s) == last.sid = s /\ last.saved # "none"

\* C6: at most one job is pending per session; _schedule_next_chat for a session that
\* has a job pending leaves one job and one stored next_trigger_time, those of the
\* later call.
C6_OneJobPerSession ==
    \A s \in SessionIds :
        /\ JobCount(jobs, s) <= 1
        /\ Scheduled(s) => FreshJob(s)

C6_Witness ==
    \E s \in SessionIds :
        /\ Scheduled(s) /\ last.prev # {} /\ Ntt(s) \notin last.prev
        /\ FreshJob(s)

\* the pending job of s runs at the stored time; without a job the stored time is
\* not in the future
TriggerMatchesJob(s) ==
    IF JobCount(jobs, s) > 0 THEN RunDates(jobs, s) = {Ntt(s)} ELSE Ntt(s) <= now

\* C7 as stated: for every session, a pending job runs at the stored
\* next_trigger_time, and without a pending job the stored time is never a future one.
C7_TriggerMatchesJob ==
    phase = "running" =>
        \A s \in SessionIds : session_data[s].present => TriggerMatchesJob(s)

\* C7 as amended: the same, while the plugin runs (after initialize, before
\* terminate), for the sessions that startup recovery takes for private sessions of
\* the configured target user.
C7_TriggerMatchesJobOfTarget ==
    (phase = "running" /\ target_user_id # <<>>) =>
        \A s \in SessionIds :
            (session_data[s].present /\ IsTargetPrivate(s, target_user_id)) =>
                TriggerMatchesJob(s)

C7_Witness ==
    /\ phase = "running" /\ target_user_id # <<>>
    /\ \E s \in SessionIds :
        /\ session_data[s].present /\ IsTargetPrivate(s, target_user_id)
        /\ JobCount(jobs, s) = 0 /\ Ntt(s) > 0 /\ Ntt(s) <= now
    /\ \E s \in SessionIds :
        /\ session_data[s].present /\ IsTargetPrivate(s, target_user_id)
        /\ JobCount(jobs, s) = 1 /\ RunDates(jobs, s) = {Ntt(s)} /\ Ntt(s) > now

\* C8: initialize registers, for every persisted session of the monitored user, a job
\* at its next_trigger_time if that time is later than now and no job otherwise;
\* sessions of other users get no job.
C8_RecoveryRegistersTargetOnly ==
    last.op = "initialize" =>
        \A s \in SessionIds :
            session_data[s].present =>
                IF Owner(s) = target_user_id /\ Ntt(s) > now
                THEN JobCount(jobs, s) = 1 /\ RunDates(jobs, s) = {Ntt(s)}
                ELSE JobCount(jobs, s) = 0

\* check_and_chat(s) has just run from its start to its first await or return
Started(s) == FiringStep(s) /\ last.at = "queued"

\* C11: a firing that starts while the plugin is disabled or in a quiet hour returns
\* at once, before the LLM call is made and with no voice or text message sent, and
\* leaves a new job registered for the session.
C11_GatedFiringSendsNothing ==
    \A s \in SessionIds :
        (Started(s) /\ (~cfg.enable \/ is_quiet_time(cfg.quiet_hours, last.hour))) =>
            /\ pc[s] = "idle"
            /\ last.outcome = "gated"
            /\ ~last.voice /\ ~last.text
            /\ FreshJob(s)

C11_Witness ==
    \E s \in SessionIds :
        /\ Started(s) /\ cfg.enable /\ is_quiet_time(cfg.quiet_hours, last.hour)
        /\ pc[s] = "idle" /\ ~last.voice /\ ~last.text
        /\ last.prev = {} /\ FreshJob(s)

\* the step is on_private_message for a message of user u, who is not the monitored
\* user (or there is none configured)
FromOther(u) ==
    /\ last'.op = "on_private_message" /\ last'.sid = Umo(u)
    /\ (target_user_id = <<>> \/ u # target_user_id)

\* C12: on_private_message for a message whose sender is not the monitored user, or
\* with no target_user_id configured, leaves the session map, the file and the
\* pending jobs with their trigger times as they were.
C12_OtherSenderChangesNothing ==
    [][\A u \in UserIds : FromOther(u) => UNCHANGED <<session_data, file, jobs>>]_vars

C12_Witness ==
    /\ last.op = "on_private_message" /\ last.outcome = "ignored"
    /\ cfg.enable /\ target_user_id # <<>> /\ Owner(last.sid) # target_user_id
    /\ JobCount(jobs, Umo(target_user_id)) = 1
    /\ file.status = "ok" /\ session_data[Umo(target_user_id)].present

\* the positions of a firing that holds a non-empty completion and has not yet called
\* send_message for the text
HoldsCompletion == {"get_audio", "send_voice", "sleep"}

\* the firing of s leaves the LLM call with a non-empty completion
Completion(s) ==
    /\ pc[s] = "llm" /\ last'.op = "check_and_chat" /\ last'.sid = s
    /\ last'.outcome \notin {"llm_failed", "exception"}

\* C13: a firing that holds a non-empty completion ends without calling send_message
\* for the text only if the voice message was sent and always_send_text is false,
\* whatever the TTS steps did (no provider, no audio, an exception, a cancellation);
\* and once the text send is called no voice step follows it.
C13_TextSentUnlessVoiceOnly ==
    [][\A s \in SessionIds :
        /\ (Completion(s) \/ pc[s] \in HoldsCompletion) =>
              \/ pc'[s] \in HoldsCompletion \cup {"send_text"}
              \/ (pc'[s] = "idle" /\ locals[s].is_tts_sent /\ ~cfg.always_send_text)
        /\ pc[s] = "send_text" => pc'[s] \in {"send_text", "idle"}
        /\ (pc[s] # "send_text" /\ pc'[s] = "send_text") =>
              (locals'[s].is_tts_sent <=> pc[s] = "sleep")]_vars

C13_Witness ==
    \E s \in SessionIds :
        /\ Returned(s) /\ last.outcome = "sent" /\ last.at = "send_text"
        /\ last.voice /\ last.text /\ cfg.always_send_text

C16_FiringLeavesJobPending ==
    \A s \in SessionIds :
        (phase = "running" /\ FiringStep(s) /\ pc[s] = "idle") => JobCount(jobs, s) >= 1

\* C17: the file holds the in-memory session map: a parseable file equals the map,
\* while there is no file the map is empty, and every write that succeeds leaves a
\* parseable file.  (A file that is not parseable is one the instance started with
\* or one a failed write left.)
C17_FileEqualsMap ==
    /\ file.status = "ok" => file.data = session_data
    /\ file.status = "missing" => session_data = EmptyData
    /\ last.saved = "ok" => file.status = "ok"

C17_Witness ==
    /\ phase = "running" /\ \A s \in SessionIds : pc[s] = "idle"
    /\ last.saved = "ok" /\ file.status = "ok" /\ file.data = session_data
    /\ \E s \in SessionIds :
        /\ session_data[s].present
        /\ Uc(s) >= 1 /\ session_data[s].last_msg_time > 0 /\ Ntt(s) > now

\* the firing of s that has just returned wrote the counter
Incremented(s) == Uc(s) = last.start + 1 /\ Uc(s) # last.before

\* C18: a firing increments unanswered_count if and only if it delivered a message,
\* voice or text, to the session.
C18_IncrementIffDelivered ==
    \A s \in SessionIds :
        Returned(s) => (Incremented(s) <=> (last.voice \/ last.text))

\* C19: an entry of the session map is never removed, and the unanswered_count of
\* every entry is a non-negative integer.
C19_EntriesOnlyGrow ==
    /\ [](\A s \in SessionIds :
            session_data[s].present => session_data[s].unanswered_count >= 0)
    /\ [][\A s \in SessionIds :
            session_data[s].present => session_data'[s].present]_vars

C19_Witness ==
    /\ phase = "terminated"
    /\ \E s \in SessionIds :
        /\ session_data[s].present
        /\ session_data[s].last_msg_time > 0 /\ session_data[s].unanswered_count = 1
    /\ \E s \in SessionIds : ~session_data[s].present

----------------------------------------------------------------------------
(* The trigger time, over every pair of interval settings *)

IntervalConfigs ==
    [enable : {TRUE}, target_user_id : {<<"1", " ">>},
     interval : (0..MaxMinutes) \X (0..MaxMinutes),
     quiet_hours : QuietCfgs, always_send_text : {TRUE}]

\* the instance after initialize, started without a data file
InitInterval ==
    /\ phase = "running"
    /\ cfg \in IntervalConfigs
    /\ now \in {0, TickStep}
    /\ file = [status |-> "missing", data |-> EmptyData]
    /\ session_data = load_session_data_from_file(file)
    /\ jobs = EmptyBag
    /\ pc = [s \in SessionIds |-> "idle"]
    /\ locals = [s \in SessionIds |-> NoLocals]
    /\ sentSince = [s \in SessionIds |-> 0]
    /\ last = [op |-> "initialize", sid |-> NoSession, outcome |-> "none",
               saved |-> "none", voice |-> FALSE, text |-> FALSE, prev |-> {},
               start |-> 0, before |-> 0, at |-> "none", hour |-> None]
    /\ probe = NoProbe

\* the first message that schedules a chat
NextInterval == \E u \in UserIds : jobs = EmptyBag /\ OnPrivateMessage(u)

SpecInterval == InitInterval /\ [][NextInterval]_vars

\* C9: every trigger time t that _schedule_next_chat computes at time now has
\* now <= t and min*60 <= t - now <= max(min, max)*60, min and max being the
\* configured minutes.
C9_TriggerWithinInterval ==
    \A s \in SessionIds :
        Scheduled(s) =>
            LET lo == cfg.interval[1]
                hi == IF cfg.interval[2] < cfg.interval[1]
                      THEN cfg.interval[1] ELSE cfg.interval[2]
                t == Ntt(s)
            IN  /\ now <= t
                /\ lo * 60 <= t - now
                /\ t - now <= hi * 60
                /\ RunDates(jobs, s) = {t}

C9_Witness ==
    \E s \in SessionIds :
        /\ Scheduled(s)
        /\ cfg.interval = <<2, 1>>
        /\ now > 0 /\ Ntt(s) = now + 120

----------------------------------------------------------------------------
(* The quiet-hours predicate, over every short string and every hour *)

QuietAlphabet == {"0", "1", "2", "-", "x"}

QuietStrings == UNION {[1..n -> QuietAlphabet] : n \in 0..MaxLen}

InitQuiet ==
    /\ phase = "constructed"
    /\ cfg = [enable |-> TRUE, target_user_id |-> <<"1", " ">>, interval |-> <<1, 0>>,
              quiet_hours |-> <<"1", "-", "7">>, always_send_text |-> TRUE]
    /\ now = 0
    /\ file = [status |-> "missing", data |-> EmptyData]
    /\ session_data = load_session_data_from_file(file)
    /\ jobs = EmptyBag
    /\ pc = [s \in SessionIds |-> "idle"]
    /\ locals = [s \in SessionIds |-> NoLocals]
    /\ sentSince = [s \in SessionIds |-> 0]
    /\ last = [op |-> "construct", sid |-> NoSession, outcome |-> "none",
               saved |-> "none", voice |-> FALSE, text |-> FALSE, prev |-> {},
               start |-> 0, before |-> 0, at |-> "none", hour |-> None]
    /\ \E str \in QuietStrings, hour \in Hours :
        probe = [kind |-> "call", quiet_hours_str |-> str, hour |-> hour,
                 result |-> FALSE]

\* is_quiet_time(quiet_hours_str, tz) is called in the hour given
IsQuietTime ==
    /\ probe.kind = "call"
    /\ probe' = [probe EXCEPT !.kind = "return",
                              !.result = is_quiet_time(probe.quiet_hours_str, probe.hour)]
    /\ UNCHANGED <<phase, cfg, now, session_data, file, jobs, pc, locals, sentSince, last>>

SpecQuiet == InitQuiet /\ [][IsQuietTime]_vars

\* the decimal numeral of an hour
Numeral(h) ==
    IF h < 10 THEN <<Digits[h + 1]>> ELSE <<Digits[(h \div 10) + 1], Digits[(h % 10) + 1]>>

Dashes(str) == {i \in 1..Len(str) : str[i] = "-"}

\* no dash, more than one dash, or a part that is not a number
Malformed(str) ==
    \/ Cardinality(Dashes(str)) # 1
    \/ LET d == CHOOSE i \in Dashes(str) : TRUE
       IN  \/ d = 1
           \/ d = Len(str)
           \/ \E i \in 1..Len(str) : i # d /\ str[i] \notin {Digits[k] : k \in 1..10}

\* C10: for the string "H1-H2" with H1 and H2 in 0..23 and the hour h, is_quiet_time
\* is true iff (H1 <= H2 and H1 <= h < H2) or (H1 > H2 and (h >= H1 or h < H2));
\* for a malformed string it is false.
C10_QuietHours ==
    probe.kind = "return" =>
        /\ \A H1 \in Hours, H2 \in Hours :
              probe.quiet_hours_str = Numeral(H1) \o <<"-">> \o Numeral(H2) =>
                  (probe.result <=>
                      \/ (H1 <= H2 /\ H1 <= probe.hour /\ probe.hour < H2)
                      \/ (H1 > H2 /\ (probe.hour >= H1 \/ probe.hour < H2)))
        /\ Malformed(probe.quiet_hours_str) => ~probe.result

C10_Witness ==
    /\ probe.kind = "return"
    /\ probe.quiet_hours_str = <<"2", "2", "-", "2">>
    /\ probe.hour = 1
    /\ probe.result

----------------------------------------------------------------------------
(* Construction, over every file *)

\* self.session_data before __init__ has assigned it
Unset == <<>>

\* the process before the plugin instance is created
InitLoad ==
    /\ phase = "absent"
    /\ cfg \in Configs
    /\ now = 0
    /\ file \in InitFiles
    /\ session_data = Unset
    /\ jobs = EmptyBag
    /\ pc = [s \in SessionIds |-> "idle"]
    /\ locals = [s \in SessionIds |-> NoLocals]
    /\ sentSince = [s \in SessionIds |-> 0]
    /\ last = [op |-> "none", sid |-> NoSession, outcome |-> "none",
               saved |-> "none", voice |-> FALSE, text |-> FALSE, prev |-> {},
               start |-> 0, before |-> 0, at |-> "none", hour |-> None]
    /\ probe = NoProbe

\* __init__: the session map is what load_session_data_from_file returns; neither
\* raises
Construct ==
    /\ phase = "absent"
    /\ phase' = "constructed"
    /\ session_data' = load_session_data_from_file(file)
    /\ last' = [last EXCEPT !.op = "construct"]
    /\ UNCHANGED <<cfg, now, file, jobs, pc, locals, sentSince, probe>>

SpecLoad == InitLoad /\ [][Construct]_vars

\* C14: constructing the controller always succeeds; with the file missing or not
\* parseable the session map is empty, with a file that holds a mapping the session
\* map equals it.
C14_LoadFailsOpen ==
    /\ phase = "absent" => ENABLED Construct
    /\ phase = "constructed" =>
          /\ file.status \in {"missing", "corrupt"} => session_data = EmptyData
          /\ file.status = "ok" => session_data = file.data

C14_Witness ==
    /\ phase = "constructed" /\ last.op = "construct"
    /\ file.status = "ok"
    /\ \E s \in SessionIds : file.data[s].present /\ session_data[s] = file.data[s]

====
